---- MODULE Spec2Model ----
(***************************************************************************)
(* pack_cluster(farmers, capacity) of ml_service/bin_packing.py: Best-Fit  *)
(* Decreasing truck packing.  One call of the function is one behaviour:   *)
(* Start is the filter and the sort of lines 16-19, Place is one iteration *)
(* of the loop of lines 22-42, Return is line 45.                          *)
(*                                                                         *)
(* Loads are integers (the kilograms of the source are floats; rounding is *)
(* not modelled).  A farmer's identifier is its position in the input     *)
(* list, so identifiers are unique within one call.                        *)
(***************************************************************************)
EXTENDS Integers, Sequences, FiniteSets, TLC

\* Bounds of the explored inputs: lists of up to MaxItems records with any
\* kind of load, lists of up to MaxPacked records with positive loads, loads
\* up to MaxLoad and capacities up to MaxCap.
MaxItems == 3
MaxPacked == 5
MaxLoad == 3
MaxCap == 4

VARIABLES farmers, capacity, pc, valid_farmers, trucks, idx, result

vars == <<farmers, capacity, pc, valid_farmers, trucks, idx, result>>

----------------------------------------------------------------------------
\* The values a record's "load_kg" entry can have: a number (or a text that
\* float() reads as that number), no entry at all, or a value float() does
\* not accept, such as the text "bad".
NumLoad(n) == [kind |-> "num", val |-> n]
AbsentLoad == [kind |-> "absent", val |-> 0]
TextLoad == [kind |-> "text", val |-> 0]

LoadValues == {NumLoad(n) : n \in -1..MaxLoad} \cup {AbsentLoad, TextLoad}

Capacities == 0..MaxCap

PositiveLoads == {NumLoad(n) : n \in 1..MaxLoad}

\* The input lists: farmer i of the list has farmer_id i.
ListsOf(n, loads) ==
    {[i \in 1..n |-> [farmer_id |-> i, load_kg |-> ls[i]]] : ls \in [1..n -> loads]}

FarmerLists ==
    UNION ({ListsOf(n, LoadValues) : n \in 0..MaxItems}
           \cup {ListsOf(n, PositiveLoads) : n \in 0..MaxPacked})

----------------------------------------------------------------------------
\* f.get("load_kg", 0): the entry, or 0 when the record has none.
GetLoad(f) == IF f.load_kg.kind = "absent" THEN NumLoad(0) ELSE f.load_kg

\* float(v) raises (ValueError on a text that is not a number).
FloatRaises(v) == v.kind = "text"

\* float(v) of a number.
Float(v) == v.val

\* The condition of the list comprehension of line 16 (on a record whose
\* load float() accepts).
IsValidMutNonNegative(f) == Float(GetLoad(f)) >= 0

IsValid(f) == Float(GetLoad(f)) > 0

\* The sort key of line 17.
LoadOf(f) == Float(f.load_kg)

\* list.sort(key=load, reverse=True): descending, and stable (records of
\* equal load keep their relative order), as one insertion per element.
InsertByLoadMutUnstable(sorted, f) ==
    LET p == Cardinality({j \in 1..Len(sorted) : LoadOf(sorted[j]) > LoadOf(f)})
    IN  SubSeq(sorted, 1, p) \o <<f>> \o SubSeq(sorted, p + 1, Len(sorted))

InsertByLoad(sorted, f) ==
    LET p == Cardinality({j \in 1..Len(sorted) : LoadOf(sorted[j]) >= LoadOf(f)})
    IN  SubSeq(sorted, 1, p) \o <<f>> \o SubSeq(sorted, p + 1, Len(sorted))

RECURSIVE SortByLoadDesc(_)
SortByLoadDesc(s) ==
    IF s = <<>> THEN <<>>
    ELSE InsertByLoad(SortByLoadDesc(SubSeq(s, 1, Len(s) - 1)), s[Len(s)])

\* trucks.sort(key=remaining): ascending and stable, in place.
InsertByRemainingMutUnstable(sorted, t) ==
    LET p == Cardinality({j \in 1..Len(sorted) : sorted[j].remaining < t.remaining})
    IN  SubSeq(sorted, 1, p) \o <<t>> \o SubSeq(sorted, p + 1, Len(sorted))

InsertByRemaining(sorted, t) ==
    LET p == Cardinality({j \in 1..Len(sorted) : sorted[j].remaining <= t.remaining})
    IN  SubSeq(sorted, 1, p) \o <<t>> \o SubSeq(sorted, p + 1, Len(sorted))

RECURSIVE SortedByRemaining(_)
SortedByRemaining(ts) ==
    IF ts = <<>> THEN <<>>
    ELSE InsertByRemaining(SortedByRemaining(SubSeq(ts, 1, Len(ts) - 1)), ts[Len(ts)])

SortByRemainingMutNoSort(ts) == ts

SortByRemaining(ts) == SortedByRemaining(ts)

\* The test of line 31.
FitsMutStrict(t, load) == t.remaining > load

FitsMutAlways(t, load) == t.remaining >= 0

Fits(t, load) == t.remaining >= load

\* The scan of lines 29-35: the position of the first truck that takes the
\* load, 0 when the scan ends without a break.
FirstFitMutLast(ts, load) ==
    LET fit == {k \in 1..Len(ts) : Fits(ts[k], load)}
    IN  IF fit = {} THEN 0 ELSE CHOOSE k \in fit : \A j \in fit : j <= k

FirstFit(ts, load) ==
    LET fit == {k \in 1..Len(ts) : Fits(ts[k], load)}
    IN  IF fit = {} THEN 0 ELSE CHOOSE k \in fit : \A j \in fit : k <= j

Max(a, b) == IF a >= b THEN a ELSE b

\* Lines 32-33.
AddToTruckMutReplace(t, f) ==
    [farmers |-> <<f.farmer_id>>, remaining |-> t.remaining - LoadOf(f)]

AddToTruck(t, f) ==
    [farmers |-> Append(t.farmers, f.farmer_id),
     remaining |-> t.remaining - LoadOf(f)]

\* Lines 39-42.
NewTruck(f, cap) ==
    [farmers |-> <<f.farmer_id>>, remaining |-> Max(cap - LoadOf(f), 0)]

\* One iteration of the loop of lines 22-42 on the truck list ts.
PlaceFarmer(ts, f, cap) ==
    LET sorted == SortByRemaining(ts)
        k == FirstFit(sorted, LoadOf(f))
    IN  IF k # 0
        THEN [sorted EXCEPT ![k] = AddToTruck(sorted[k], f)]
        ELSE Append(sorted, NewTruck(f, cap))

\* Line 45.
FarmerListsOf(ts) == [k \in 1..Len(ts) |-> ts[k].farmers]

----------------------------------------------------------------------------
Init ==
    /\ farmers \in FarmerLists
    /\ capacity \in Capacities
    /\ pc = "start"
    /\ valid_farmers = <<>>
    /\ trucks = <<>>
    /\ idx = 1
    /\ result = <<>>

\* Lines 16-19.  The comprehension calls float() on every record's load, so
\* one text load ends the call with ValueError before anything is packed.
Start ==
    /\ pc = "start"
    /\ IF \E i \in 1..Len(farmers) : FloatRaises(GetLoad(farmers[i]))
       THEN /\ pc' = "raised"
            /\ UNCHANGED valid_farmers
       ELSE /\ valid_farmers' = SortByLoadDesc(SelectSeq(farmers, IsValid))
            /\ pc' = "loop"
    /\ trucks' = <<>>
    /\ idx' = 1
    /\ UNCHANGED <<farmers, capacity, result>>

\* Lines 22-42, for the farmer valid_farmers[idx].
Place ==
    /\ pc = "loop"
    /\ idx <= Len(valid_farmers)
    /\ trucks' = PlaceFarmer(trucks, valid_farmers[idx], capacity)
    /\ idx' = idx + 1
    /\ UNCHANGED <<farmers, capacity, pc, valid_farmers, result>>

\* Line 45, once the loop has run out of farmers.
Return ==
    /\ pc = "loop"
    /\ idx > Len(valid_farmers)
    /\ result' = FarmerListsOf(trucks)
    /\ pc' = "done"
    /\ UNCHANGED <<farmers, capacity, valid_farmers, trucks, idx>>

Next == Start \/ Place \/ Return

Spec == Init /\ [][Next]_vars

----------------------------------------------------------------------------
\* What the properties below speak of, stated on the input and not on the
\* truck records' bookkeeping.

\* The input record with identifier id.
FarmerById(id) == CHOOSE f \in {farmers[i] : i \in 1..Len(farmers)} : f.farmer_id = id

\* The position of identifier id in the input list.
InputPos(id) == CHOOSE i \in 1..Len(farmers) : farmers[i].farmer_id = id

\* A record's load counts as valid when it is a number > 0.
HasValidLoad(f) == f.load_kg.kind = "num" /\ f.load_kg.val > 0

ValidIds == {farmers[i].farmer_id : i \in {j \in 1..Len(farmers) : HasValidLoad(farmers[j])}}

InvalidIds == {farmers[i].farmer_id : i \in {j \in 1..Len(farmers) : ~HasValidLoad(farmers[j])}}

LoadOfId(id) == FarmerById(id).load_kg.val

RECURSIVE SumLoads(_)
SumLoads(ids) ==
    IF ids = <<>> THEN 0 ELSE LoadOfId(ids[1]) + SumLoads(Tail(ids))

\* Capacity minus the loads assigned, never below 0.
RemainingOf(ids) == Max(capacity - SumLoads(ids), 0)

\* The carriers' item lists, in working-list order.
Carriers == FarmerListsOf(trucks)

\* The step at which the carrier that starts with identifier id was created.
PlacedAt(id) == CHOOSE p \in 1..Len(valid_farmers) : valid_farmers[p].farmer_id = id

CreatedAt(ids) == PlacedAt(ids[1])

Placing == pc = "loop" /\ idx <= Len(valid_farmers)

\* A carrier that holds one item heavier than the capacity.
Oversized(ids) == Len(ids) = 1 /\ LoadOfId(ids[1]) > capacity

----------------------------------------------------------------------------
\* C1: with capacity > 0, after every placement step every carrier's loads
\* sum to at most the capacity, except a carrier holding exactly one item
\* heavier than the capacity; the returned carriers are the same.
C1_CapacityInvariant ==
    capacity > 0 =>
        /\ \A k \in 1..Len(trucks) :
              \/ SumLoads(trucks[k].farmers) <= capacity
              \/ Oversized(trucks[k].farmers)
        /\ \A k \in 1..Len(result) :
              \/ SumLoads(result[k]) <= capacity
              \/ Oversized(result[k])

C1_Witness ==
    /\ pc = "done"
    /\ capacity > 0
    /\ \E k \in 1..Len(result) : Oversized(result[k])
    /\ \E k \in 1..Len(result) : Len(result[k]) >= 2 /\ SumLoads(result[k]) = capacity

\* C2: the returned carriers partition the valid items: each valid
\* identifier is at exactly one place of exactly one carrier, and nothing
\* else is in any carrier.
C2_Partition ==
    pc = "done" =>
        /\ \A id \in ValidIds :
              Cardinality({<<k, j>> \in (1..Len(result)) \X (1..Len(farmers)) :
                              j <= Len(result[k]) /\ result[k][j] = id}) = 1
        /\ \A k \in 1..Len(result) : \A j \in 1..Len(result[k]) :
              result[k][j] \in ValidIds

C2_Witness ==
    /\ pc = "done"
    /\ InvalidIds # {}
    /\ Len(result) >= 2
    /\ \E k \in 1..Len(result) : Oversized(result[k])

LastId == valid_farmers[Len(valid_farmers)].farmer_id

ScannedList(ids) ==
    IF ids[Len(ids)] = LastId THEN SubSeq(ids, 1, Len(ids) - 1) ELSE ids

C4_InvalidCapacityRejected ==
    capacity <= 0 => (trucks = <<>> /\ pc # "done")

\* C5 as claimed: a record whose load is missing, not a number or <= 0 is
\* skipped: no error is raised, and the call returns the valid items packed
\* and none of the others.
C5_InvalidItemsSkipped ==
    /\ pc # "raised"
    /\ pc = "done" =>
          {result[k][j] : <<k, j>> \in {<<a, b>> \in (1..Len(result)) \X (1..Len(farmers)) :
                                            b <= Len(result[a])}} = ValidIds

\* One placement step, as best fit has it.
C6_Step ==
    Placing /\ idx' = idx + 1 =>
        LET f == valid_farmers[idx]
            id == f.farmer_id
            load == LoadOfId(id)
            old == Carriers
            new == FarmerListsOf(trucks')
            fit == {k \in 1..Len(old) : RemainingOf(old[k]) >= load}
        IN  IF fit = {}
            THEN /\ Len(new) = Len(old) + 1
                 /\ \E k \in 1..Len(new) : new[k] = <<id>>
            ELSE /\ Len(new) = Len(old)
                 /\ \E k \in fit :
                       /\ \A j \in fit : RemainingOf(old[k]) <= RemainingOf(old[j])
                       /\ \E n \in 1..Len(new) : new[n] = Append(old[k], id)

\* C6: a placement step puts the item in an existing carrier of the least
\* remaining capacity among those whose remaining capacity is >= the load,
\* and creates a carrier exactly when there is none.
C6_BestFit == [][C6_Step]_vars

C6_Witness ==
    /\ pc = "loop"
    /\ idx > 1
    /\ \E k \in 1..Len(trucks) :
          /\ Len(trucks[k].farmers) >= 2
          /\ trucks[k].farmers[Len(trucks[k].farmers)] = valid_farmers[idx - 1].farmer_id
          /\ SumLoads(trucks[k].farmers) = capacity
          /\ \E j \in 1..Len(trucks) :
                /\ j # k
                /\ RemainingOf(trucks[j].farmers) >= LoadOfId(valid_farmers[idx - 1].farmer_id)

\* The order in which the next placement step scans the carriers, and a
\* carrier's place in the working list before that step.
ScanOrder == FarmerListsOf(SortByRemaining(trucks))

Ascending(lists) ==
    \A i, j \in 1..Len(lists) :
        i < j => RemainingOf(lists[i]) <= RemainingOf(lists[j])

WorkingPos(ids) == CHOOSE p \in 1..Len(trucks) : trucks[p].farmers = ids

C7_Step ==
    Placing /\ idx' = idx + 1 =>
        /\ Ascending(ScanOrder)
        /\ Len(ScanOrder) = Len(trucks)
        /\ \A p \in 1..Len(trucks) : \E i \in 1..Len(ScanOrder) : ScanOrder[i] = Carriers[p]
        /\ \A i, j \in 1..Len(ScanOrder) :
              (i < j /\ RemainingOf(ScanOrder[i]) = RemainingOf(ScanOrder[j]))
                  => WorkingPos(ScanOrder[i]) < WorkingPos(ScanOrder[j])
        /\ LET id == valid_farmers[idx].farmer_id
               fit == {i \in 1..Len(ScanOrder) : RemainingOf(ScanOrder[i]) >= LoadOfId(id)}
           IN  fit # {} =>
                  \E i \in fit :
                      /\ \A j \in fit : i <= j
                      /\ \E n \in 1..Len(trucks') :
                            trucks'[n].farmers = Append(ScanOrder[i], id)

InPlacementOrder(a, b) ==
    \/ LoadOfId(a) > LoadOfId(b)
    \/ LoadOfId(a) = LoadOfId(b) /\ InputPos(a) < InputPos(b)

\* C8: the valid items are placed in non-increasing load order, items of
\* equal load in input order, and every returned carrier lists its items in
\* that order; three items of equal load, two of which fill a carrier, give
\* the carriers [1,2] and [3].
C8_PlacementOrder ==
    /\ pc \in {"loop", "done"} =>
          /\ {valid_farmers[p].farmer_id : p \in 1..Len(valid_farmers)} = ValidIds
          /\ \A p, q \in 1..Len(valid_farmers) :
                p < q => InPlacementOrder(valid_farmers[p].farmer_id,
                                          valid_farmers[q].farmer_id)
    /\ pc = "done" =>
          /\ \A k \in 1..Len(result) : \A i, j \in 1..Len(result[k]) :
                i < j => InPlacementOrder(result[k][i], result[k][j])
          /\ (/\ Len(farmers) = 3
              /\ \A i \in 1..3 : farmers[i].load_kg = NumLoad(1)
              /\ capacity = 2) => result = <<<<1, 2>>, <<3>>>>

C8_Witness ==
    /\ pc = "done"
    /\ Len(farmers) = 3
    /\ \A i \in 1..3 : farmers[i].load_kg = NumLoad(1)
    /\ capacity = 2
    /\ result = <<<<1, 2>>, <<3>>>>

\* The carriers' lists as a set, and one step that changes at most one.
ListSet(lists) == {lists[k] : k \in 1..Len(lists)}

C9_Step ==
    LET old == Carriers
        new == FarmerListsOf(trucks')
    IN  /\ \A k \in 1..Len(new) : new[k] # <<>>
        /\ Cardinality(ListSet(new)) = Len(new)
        /\ IF Placing /\ idx' = idx + 1
           THEN LET id == valid_farmers[idx].farmer_id
                IN  \/ /\ Len(new) = Len(old) + 1
                       /\ ListSet(new) = ListSet(old) \cup {<<id>>}
                    \/ /\ Len(new) = Len(old)
                       /\ \E k \in 1..Len(old) :
                             ListSet(new) = (ListSet(old) \ {old[k]})
                                               \cup {Append(old[k], id)}
           ELSE new = old
        /\ pc' = "done" => (result' = new /\ \A k \in 1..Len(result') : result'[k] # <<>>)

\* C9: every placement step either appends the item to one carrier's list or
\* adds one carrier holding only the item, and leaves every other carrier's
\* list as it was; no other step changes a carrier, and no carrier is empty.
C9_AppendOnly == [][C9_Step]_vars

C9_Witness ==
    /\ pc = "done"
    /\ Len(result) >= 2
    /\ \E k \in 1..Len(result) : Len(result[k]) >= 3

\* C10: any two distinct returned carriers together hold more than the
\* capacity, so at most one of them is filled to half the capacity or less.
C10_NoTwoMergeable ==
    pc = "done" =>
        /\ \A i, j \in 1..Len(result) :
              i # j => SumLoads(result[i]) + SumLoads(result[j]) > capacity
        /\ Cardinality({k \in 1..Len(result) : 2 * SumLoads(result[k]) <= capacity}) <= 1

C10_Witness ==
    /\ pc = "done"
    /\ capacity > 0
    /\ Len(result) >= 3
    /\ \E k \in 1..Len(result) : 2 * SumLoads(result[k]) <= capacity

====
